---------------------------- MODULE Spec2Model ----------------------------
(***************************************************************************)
(* Model of the MLX90614 infrared thermometer driver for Azure Sphere:     *)
(* the CRC-8 packet error code, the register transport (reg_read,          *)
(* reg_write), the EEPROM writer and the device facade of lib_mlx90614.c.  *)
(*                                                                         *)
(* Every driver function is modelled as the set of outcomes it can have    *)
(* over all behaviours of the I2C bus: an outcome records the function's   *)
(* result, what it stored, and the bus transactions and delays it issued,  *)
(* in order.  A bus response is drawn only for a transaction the code      *)
(* really issues.                                                          *)
(***************************************************************************)
EXTENDS Integers, Sequences, FiniteSets, TLC

VARIABLES
    p_mlx,      \* the caller's device descriptor pointer: NULL or the descriptor
    allocated,  \* whether a descriptor block is currently held on the heap
    call,       \* the call that has just returned (arguments, result, outputs)
    bus         \* what that call did on the bus, in order (transactions, sleeps)

vars == <<p_mlx, allocated, call, bus>>

(***************************************************************************)
(* Program constants                                                       *)
(***************************************************************************)
MLX90614_I2C_ADDRESS     == 90   \* 0x5A
MLX90614_RREG_TA         == 6    \* 0x06
MLX90614_RREG_TOBJ1      == 7    \* 0x07
MLX90614_RREG_TOBJ2      == 8    \* 0x08
MLX90614_EREG_ECC        == 36   \* 0x24
MLX90614_EREG_SMBUS_ADDR == 46   \* 0x2E
MLX90614_EREG_ID1        == 60   \* 0x3C
MLX90614_T_ERASE_MS      == 5
MLX90614_T_WRITE_MS      == 5
MLX_TEMP_CELSIUS         == 2    \* third enumerator of mlx_temperature_unit
MLX90614_EMISSIVITY_ERROR == -1  \* -1.0
MLX_TEMP_LINEARIZED      == 0
MLX_TEMP_KELVIN          == 1
MLX_TEMP_FAHRENHEIT      == 3

NULL == [null |-> TRUE]

(***************************************************************************)
(* Bounds of the model                                                     *)
(***************************************************************************)
\* How many distinct 16-bit words the sensor's cells may hold.
MaxWords == 2

\* 0x27AD (-70.01 C), 0x8001 (bit 15 set), 0x3A98 (26.85 C), 0xFFFF
WordList == <<10157, 32769, 15000, 65535>>

SensorWords == {WordList[i] : i \in 1..MaxWords}

\* Bus addresses a descriptor is opened on: the default 0x5A and 0x41.
I2cAddrs == {MLX90614_I2C_ADDRESS, 65}

\* The registers the driver accesses.
Regs == {MLX90614_RREG_TA, MLX90614_RREG_TOBJ1, MLX90614_RREG_TOBJ2,
         MLX90614_EREG_ECC, MLX90614_EREG_SMBUS_ADDR}
        \cup {MLX90614_EREG_ID1 + i : i \in 0..3}

Byte == 0..255

(***************************************************************************)
(* C's bitwise operators on non-negative integers                          *)
(***************************************************************************)
RECURSIVE BitXor(_, _)
BitXor(a, b) ==
    IF a = 0 THEN b
    ELSE IF b = 0 THEN a
    ELSE (((a % 2) + (b % 2)) % 2) + 2 * BitXor(a \div 2, b \div 2)

RECURSIVE BitAnd(_, _)
BitAnd(a, b) ==
    IF a = 0 \/ b = 0 THEN 0
    ELSE ((a % 2) * (b % 2)) + 2 * BitAnd(a \div 2, b \div 2)

RECURSIVE BitOr(_, _)
BitOr(a, b) ==
    IF a = 0 THEN b
    ELSE IF b = 0 THEN a
    ELSE (IF a % 2 = 1 \/ b % 2 = 1 THEN 1 ELSE 0) + 2 * BitOr(a \div 2, b \div 2)

\* (uint8_t)x
U8(x) == x % 256

\* (uint16_t)x
U16(x) == x % 65536

(***************************************************************************)
(* crc8: the driver's packet error code step                               *)
(***************************************************************************)
\* crc8 with the polynomial of another CRC-8 (0x31) in place of 0x07
RECURSIVE crc8_loop_poly31(_, _)
crc8_loop_poly31(result, bit_idx) ==
    IF bit_idx < 8
    THEN IF (result \div 128) % 2 # 0
         THEN crc8_loop_poly31(BitXor(U8(result * 2), 49), bit_idx + 1)
         ELSE crc8_loop_poly31(U8(result * 2), bit_idx + 1)
    ELSE result

RECURSIVE crc8_loop(_, _)
crc8_loop(result, bit_idx) ==
    IF bit_idx < 8
    THEN IF (result \div 128) % 2 # 0      \* (result & 0x80) != 0
         THEN crc8_loop(BitXor(U8(result * 2), 7), bit_idx + 1)
         ELSE crc8_loop(U8(result * 2), bit_idx + 1)
    ELSE result

\* The result of the eight shift steps for every value of result they can
\* start from.
crc8_shifted == [result \in Byte |-> crc8_loop(result, 0)]

crc8(prev_crc, data) == crc8_shifted[BitXor(prev_crc, data)]

(***************************************************************************)
(* The reference CRC-8 of SMBus: the remainder of the message polynomial   *)
(* times x^8 divided by x^8 + x^2 + x + 1 over GF(2), by long division on  *)
(* the bit string, most significant bit first, no reflection, no final     *)
(* XOR.                                                                    *)
(***************************************************************************)
\* x^8 + x^2 + x^1 + 1, most significant coefficient first
Generator == <<1, 0, 0, 0, 0, 0, 1, 1, 1>>

Bits8(n) == [i \in 1..8 |-> (n \div (2 ^ (8 - i))) % 2]

Zero8 == [i \in 1..8 |-> 0]

RECURSIVE BitsValue(_)
BitsValue(bits) ==
    IF bits = <<>> THEN 0
    ELSE 2 * BitsValue(SubSeq(bits, 1, Len(bits) - 1)) + bits[Len(bits)]

RECURSIVE PolyRemainder(_)
PolyRemainder(bits) ==
    IF Len(bits) < Len(Generator) THEN bits
    ELSE IF bits[1] = 0 THEN PolyRemainder(Tail(bits))
    ELSE PolyRemainder(Tail([i \in 1..Len(bits) |->
             IF i <= Len(Generator) THEN (bits[i] + Generator[i]) % 2
             ELSE bits[i]]))

\* one step of the reference: the register `prev` is added to the next byte
RefCrc8(prev, byte) ==
    BitsValue(PolyRemainder(
        [i \in 1..8 |-> (Bits8(prev)[i] + Bits8(byte)[i]) % 2] \o Zero8))

RECURSIVE MessageBits(_)
MessageBits(bytes) ==
    IF bytes = <<>> THEN <<>> ELSE Bits8(Head(bytes)) \o MessageBits(Tail(bytes))

\* the reference over a whole message, seed 0
RefCrc8Message(bytes) == BitsValue(PolyRemainder(MessageBits(bytes) \o Zero8))

(***************************************************************************)
(* The sensor and the bus transport (applibs I2CMaster calls), the         *)
(* external collaborators of the driver.  A transaction is atomic: it      *)
(* transfers every byte and returns their count, or fails and returns -1. *)
(***************************************************************************)
\* The packet error code the sensor appends to a read of `word` from `reg`.
PecTable ==
    [i2c_addr \in I2cAddrs |-> [reg_addr \in Regs |-> [word \in SensorWords |->
        RefCrc8Message(<<U8(i2c_addr * 2), reg_addr, U8(i2c_addr * 2) + 1,
                         word % 256, word \div 256>>)]]]

SensorPec(i2c_addr, reg_addr, word) == PecTable[i2c_addr][reg_addr][word]

\* The three bytes of a read: low byte, high byte, packet error code.
Frame(word, pec) == <<word % 256, word \div 256, pec>>

\* What reg_read's local buffer[3] may hold when the transport stored nothing
\* in it: zeroes, or the frame an earlier read of the same register left on
\* the stack.
StaleBuffers(i2c_addr, reg_addr) ==
    {<<0, 0, 0>>,
     Frame(WordList[1], SensorPec(i2c_addr, reg_addr, WordList[1]))}

\* I2CMaster_WriteThenRead(fd, addr, &reg_addr, 1, p_data, len): the count of
\* bytes written and read with the data received (a frame of the sensor,
\* whose last byte may have been corrupted on the wire), or -1.
I2CMaster_WriteThenRead(i2c_addr, reg_addr, len) ==
    UNION {{[ret |-> 1 + len, data |-> Frame(w, pec)] :
                pec \in {SensorPec(i2c_addr, reg_addr, w),
                         255 - SensorPec(i2c_addr, reg_addr, w)}} :
           w \in SensorWords}
    \cup {[ret |-> -1, data |-> b] : b \in StaleBuffers(i2c_addr, reg_addr)}

\* I2CMaster_Write(fd, addr, buffer, len): the count of bytes written, or -1.
I2CMaster_Write(i2c_addr, buffer, len) == {len, -1}

Sleep(ms) == [op |-> "nanosleep", tv_sec |-> 0, tv_nsec |-> ms * 1000000]

(***************************************************************************)
(* mlx90614_support.c                                                      *)
(***************************************************************************)
i2c_read(mlx, reg_addr, data_len) ==
    {[result |-> t.ret - 1,
      p_data |-> t.data,
      bus    |-> <<[op |-> "I2CMaster_WriteThenRead", addr |-> mlx.i2c_addr,
                    reg |-> reg_addr, len |-> data_len,
                    ret |-> t.ret, data |-> t.data]>>] :
        t \in I2CMaster_WriteThenRead(mlx.i2c_addr, reg_addr, data_len)}

i2c_write(mlx, reg_addr, p_data, data_len) ==
    LET buffer == <<reg_addr>> \o SubSeq(p_data, 1, data_len)
    IN  {[result |-> ret,
          bus    |-> <<[op |-> "I2CMaster_Write", addr |-> mlx.i2c_addr,
                        data |-> buffer, ret |-> ret]>>] :
            ret \in I2CMaster_Write(mlx.i2c_addr, buffer, data_len + 1)}

\* reg_read storing the value before it has checked the PEC
reg_read_stores_unchecked(mlx, reg_addr, p_reg_value) ==
    LET crc0 == crc8(0, U8(mlx.i2c_addr * 2))
        crc1 == crc8(crc0, reg_addr)
        crc2 == crc8(crc1, BitOr(U8(mlx.i2c_addr * 2), 1))
    IN  {LET buffer == r.p_data
             crc3 == crc8(crc2, buffer[1])
             crc  == crc8(crc3, buffer[2])
             ok   == r.result # -1 /\ buffer[3] = crc
         IN  [b_result  |-> ok,
              reg_value |-> U16(BitOr(buffer[2] * 256, buffer[1])),
              bus       |-> r.bus] :
            r \in i2c_read(mlx, reg_addr, 3)}

\* reg_read assembling the word with the two data bytes exchanged
reg_read_bytes_swapped(mlx, reg_addr, p_reg_value) ==
    LET crc0 == crc8(0, U8(mlx.i2c_addr * 2))
        crc1 == crc8(crc0, reg_addr)
        crc2 == crc8(crc1, BitOr(U8(mlx.i2c_addr * 2), 1))
    IN  {LET buffer == r.p_data
             crc3 == crc8(crc2, buffer[1])
             crc  == crc8(crc3, buffer[2])
             ok   == r.result # -1 /\ buffer[3] = crc
         IN  [b_result  |-> ok,
              reg_value |-> IF ok THEN U16(BitOr(buffer[1] * 256, buffer[2]))
                            ELSE p_reg_value,
              bus       |-> r.bus] :
            r \in i2c_read(mlx, reg_addr, 3)}

\* p_reg_value is the content of the caller's variable before the call.
reg_read(mlx, reg_addr, p_reg_value) ==
    LET crc0 == crc8(0, U8(mlx.i2c_addr * 2))
        crc1 == crc8(crc0, reg_addr)
        crc2 == crc8(crc1, BitOr(U8(mlx.i2c_addr * 2), 1))
    IN  {LET buffer == r.p_data
             crc3 == crc8(crc2, buffer[1])
             crc  == crc8(crc3, buffer[2])
             ok   == r.result # -1 /\ buffer[3] = crc
         IN  [b_result  |-> ok,
              reg_value |-> IF ok THEN U16(BitOr(buffer[2] * 256, buffer[1]))
                            ELSE p_reg_value,
              bus       |-> r.bus] :
            r \in i2c_read(mlx, reg_addr, 3)}

\* reg_write leaving the register address out of the PEC
reg_write_pec_without_reg(mlx, reg_addr, reg_value) ==
    LET b0 == U8(BitAnd(reg_value, 255))
        b1 == U8(reg_value \div 256)
        c0 == crc8(0, U8(mlx.i2c_addr * 2))
        c2 == crc8(c0, b0)
        c3 == crc8(c2, b1)
        buffer == <<b0, b1, c3>>
    IN  {[b_result |-> w.result # -1, bus |-> w.bus] :
            w \in i2c_write(mlx, reg_addr, buffer, 3)}

reg_write(mlx, reg_addr, reg_value) ==
    LET b0 == U8(BitAnd(reg_value, 255))
        b1 == U8(reg_value \div 256)
        c0 == crc8(0, U8(mlx.i2c_addr * 2))
        c1 == crc8(c0, reg_addr)
        c2 == crc8(c1, b0)
        c3 == crc8(c2, b1)
        buffer == <<b0, b1, c3>>
    IN  {[b_result |-> w.result # -1, bus |-> w.bus] :
            w \in i2c_write(mlx, reg_addr, buffer, 3)}

\* eeprom_write without the erase write
eeprom_write_no_erase(mlx, reg_addr, reg_value) ==
    {[b_result |-> w.b_result,
      bus |-> w.bus \o <<Sleep(MLX90614_T_WRITE_MS)>>] :
        w \in reg_write(mlx, reg_addr, reg_value)}

\* eeprom_write going on to the value write after a failed erase write and
\* returning the value write's result
eeprom_write_result_of_last(mlx, reg_addr, reg_value) ==
    UNION {
        {[b_result |-> w.b_result,
          bus |-> e.bus \o <<Sleep(MLX90614_T_ERASE_MS)>>
                  \o w.bus \o <<Sleep(MLX90614_T_WRITE_MS)>>] :
            w \in reg_write(mlx, reg_addr, reg_value)} :
        e \in reg_write(mlx, reg_addr, 0)}

\* eeprom_write without the erase settle delay
eeprom_write_no_erase_delay(mlx, reg_addr, reg_value) ==
    UNION {
        IF e.b_result
        THEN {[b_result |-> w.b_result,
               bus |-> e.bus \o w.bus \o <<Sleep(MLX90614_T_WRITE_MS)>>] :
                 w \in reg_write(mlx, reg_addr, reg_value)}
        ELSE {[b_result |-> e.b_result, bus |-> e.bus]} :
        e \in reg_write(mlx, reg_addr, 0)}

\* eeprom_write returning the erase write's result whatever the value write
\* did
eeprom_write_result_of_erase(mlx, reg_addr, reg_value) ==
    UNION {
        IF e.b_result
        THEN {[b_result |-> e.b_result,
               bus |-> e.bus \o <<Sleep(MLX90614_T_ERASE_MS)>>
                       \o w.bus \o <<Sleep(MLX90614_T_WRITE_MS)>>] :
                 w \in reg_write(mlx, reg_addr, reg_value)}
        ELSE {[b_result |-> e.b_result,
               bus |-> e.bus \o <<Sleep(MLX90614_T_ERASE_MS)>>]} :
        e \in reg_write(mlx, reg_addr, 0)}

eeprom_write(mlx, reg_addr, reg_value) ==
    UNION {
        IF e.b_result
        THEN {[b_result |-> w.b_result,
               bus |-> e.bus \o <<Sleep(MLX90614_T_ERASE_MS)>>
                       \o w.bus \o <<Sleep(MLX90614_T_WRITE_MS)>>] :
                 w \in reg_write(mlx, reg_addr, reg_value)}
        ELSE {[b_result |-> e.b_result,
               bus |-> e.bus \o <<Sleep(MLX90614_T_ERASE_MS)>>]} :
        e \in reg_write(mlx, reg_addr, 0)}

(***************************************************************************)
(* lib_mlx90614.c                                                          *)
(***************************************************************************)
\* The loop of mlx90614_get_id storing the word before it tests the result
\* of the read
RECURSIVE get_id_loop_stores_first(_, _, _, _)
get_id_loop_stores_first(mlx, idx, b_result, trace) ==
    IF idx < 4
    THEN UNION {
            IF r.b_result
            THEN get_id_loop_stores_first(
                    [mlx EXCEPT !.device_id[idx + 1] = r.reg_value],
                    idx + 1, r.b_result, trace \o r.bus)
            ELSE {[b_result |-> r.b_result,
                   mlx |-> [mlx EXCEPT !.device_id[idx + 1] = r.reg_value],
                   bus |-> trace \o r.bus]} :
            r \in reg_read(mlx, U8(MLX90614_EREG_ID1 + idx), 0)}
    ELSE {[b_result |-> b_result, mlx |-> mlx, bus |-> trace]}

\* The loop of mlx90614_get_id from index idx on; b_result is the local's
\* current value.
RECURSIVE get_id_loop(_, _, _, _)
get_id_loop(mlx, idx, b_result, trace) ==
    IF idx < 4
    THEN UNION {
            IF r.b_result
            THEN get_id_loop([mlx EXCEPT !.device_id[idx + 1] = r.reg_value],
                             idx + 1, r.b_result, trace \o r.bus)
            ELSE {[b_result |-> r.b_result, mlx |-> mlx,
                   bus |-> trace \o r.bus]} :
            r \in reg_read(mlx, U8(MLX90614_EREG_ID1 + idx), 0)}
    ELSE {[b_result |-> b_result, mlx |-> mlx, bus |-> trace]}

mlx90614_get_id(mlx) == get_id_loop(mlx, 0, FALSE, <<>>)

\* The name mlx90614_open calls the device-ID read by.
mlx90614_read_id(mlx) == get_id_loop(mlx, 0, FALSE, <<>>)

\* malloc(sizeof(mlx90614_t)): NULL, or a block of indeterminate content.
malloc_mlx90614_t ==
    {NULL} \cup
    {[i2c_fd |-> g, i2c_addr |-> g, temperature_unit |-> g,
      device_id |-> <<g, g, g, g>>, tobj1 |-> g, tobj2 |-> g] :
        g \in SensorWords}

\* Outcomes: the pointer returned, whether the block is still allocated, and
\* (for observation) the result of the device-ID read the function made.
mlx90614_open(i2c_fd, i2c_addr) ==
    UNION {
        IF m = NULL
        THEN \* b_is_init_ok = false; free(NULL)
             {[p_mlx |-> NULL, allocated |-> FALSE, malloc_ok |-> FALSE,
               id_ok |-> FALSE, bus |-> <<>>]}
        ELSE LET init == [m EXCEPT !.i2c_fd = i2c_fd, !.i2c_addr = i2c_addr,
                                   !.temperature_unit = MLX_TEMP_CELSIUS]
                 b_is_init_ok == TRUE
             IN  {IF b_is_init_ok
                  THEN [p_mlx |-> id.mlx, allocated |-> TRUE,
                        malloc_ok |-> TRUE, id_ok |-> id.b_result,
                        bus |-> id.bus]
                  ELSE [p_mlx |-> NULL, allocated |-> FALSE,
                        malloc_ok |-> TRUE, id_ok |-> id.b_result,
                        bus |-> id.bus] :
                     id \in mlx90614_read_id(init)} :
        m \in malloc_mlx90614_t}

\* mlx90614_set_address with the upper bound included (address <= 0x80)
mlx90614_set_address_inclusive(mlx, address) ==
    IF address > 0 /\ address <= 128
    THEN UNION {
            IF r.b_result
            THEN LET temp_addr == BitOr(BitAnd(r.reg_value, 65280), address)
                 IN  {[b_result |-> e.b_result, eeprom_arg |-> <<temp_addr>>,
                       bus |-> r.bus \o e.bus] :
                        e \in eeprom_write(mlx, MLX90614_EREG_SMBUS_ADDR,
                                           temp_addr)}
            ELSE {[b_result |-> r.b_result, eeprom_arg |-> <<>>,
                   bus |-> r.bus]} :
            r \in reg_read(mlx, MLX90614_EREG_SMBUS_ADDR, 0)}
    ELSE {[b_result |-> FALSE, eeprom_arg |-> <<>>, bus |-> <<>>]}

\* mlx90614_set_address writing the address alone, the high byte of the
\* cell cleared
mlx90614_set_address_clears_high(mlx, address) ==
    IF address > 0 /\ address < 128
    THEN UNION {
            IF r.b_result
            THEN LET temp_addr == BitOr(BitAnd(r.reg_value, 0), address)
                 IN  {[b_result |-> e.b_result, eeprom_arg |-> <<temp_addr>>,
                       bus |-> r.bus \o e.bus] :
                        e \in eeprom_write(mlx, MLX90614_EREG_SMBUS_ADDR,
                                           temp_addr)}
            ELSE {[b_result |-> r.b_result, eeprom_arg |-> <<>>,
                   bus |-> r.bus]} :
            r \in reg_read(mlx, MLX90614_EREG_SMBUS_ADDR, 0)}
    ELSE {[b_result |-> FALSE, eeprom_arg |-> <<>>, bus |-> <<>>]}

\* Outcomes: the result, the bus trace and (for observation) eeprom_arg, the
\* sequence of the values the call handed to eeprom_write.
mlx90614_set_address(mlx, address) ==
    IF address > 0 /\ address < 128
    THEN UNION {
            IF r.b_result
            THEN LET temp_addr == BitOr(BitAnd(r.reg_value, 65280), address)
                 IN  {[b_result |-> e.b_result, eeprom_arg |-> <<temp_addr>>,
                       bus |-> r.bus \o e.bus] :
                        e \in eeprom_write(mlx, MLX90614_EREG_SMBUS_ADDR,
                                           temp_addr)}
            ELSE {[b_result |-> r.b_result, eeprom_arg |-> <<>>,
                   bus |-> r.bus]} :
            r \in reg_read(mlx, MLX90614_EREG_SMBUS_ADDR, 0)}
    ELSE {[b_result |-> FALSE, eeprom_arg |-> <<>>, bus |-> <<>>]}

\* The value an int16_t holding the 16-bit pattern w has.
S16(w) == IF w >= 32768 THEN w - 65536 ELSE w

\* The float mlx90614_get_emissivity stores is represented by the integer n
\* with n / 65535 the exact quotient of (float)ecc / 65535.0; rounding the
\* quotient to float keeps its sign and its order.  p_emmisivity is the
\* content of the caller's variable before the call.
mlx90614_get_emissivity(mlx, p_emmisivity) ==
    {LET ecc == S16(r.reg_value)
     IN  [b_result |-> r.b_result,
          emissivity |-> IF r.b_result THEN ecc ELSE p_emmisivity,
          bus |-> r.bus] :
        r \in reg_read(mlx, MLX90614_EREG_ECC, 0)}

\* A float emissivity f is represented by the integer f * 2^28, which is
\* exact for every float in [2^-5, 2] (and for 0.0).
FloatOne == 2 ^ 28

\* (double)emissivity >= 0.1.  The double 0.1 is 3602879701896397 / 2^55; it
\* lies strictly between 26843545 / 2^28 and 26843546 / 2^28.
float_ge_0_1(emissivity) == emissivity >= 26843546

\* (uint16_t)(emissivity * 65535.0) for 0 <= emissivity <= 1.0.  The product
\* of the two doubles has at most 45 significant bits and is exact; the
\* conversion drops its fraction.  e * 65535 = q * 2^28 + (r * 2^16 - e) with
\* e = q * 2^12 + r, which keeps every intermediate value within 32 bits.
float_times_65535_to_uint16(emissivity) ==
    LET q == emissivity \div 4096
        r == emissivity % 4096
    IN  U16(q + ((r * 65536 - emissivity) \div FloatOne))

\* mlx90614_set_emissivity accepting every value above 0.0
mlx90614_set_emissivity_accepts_below(mlx, emissivity) ==
    IF emissivity > 0 /\ emissivity <= FloatOne
    THEN LET ecc0 == float_times_65535_to_uint16(emissivity)
             ecc  == IF ecc0 < 8192 THEN 8192 ELSE ecc0
         IN  {[b_result |-> e.b_result, eeprom_arg |-> <<ecc>>,
               bus |-> e.bus] :
                e \in eeprom_write(mlx, MLX90614_EREG_ECC, U16(ecc))}
    ELSE {[b_result |-> FALSE, eeprom_arg |-> <<>>, bus |-> <<>>]}

\* Outcomes: the result, the bus trace and (for observation) eeprom_arg, the
\* sequence of the values the call handed to eeprom_write.
mlx90614_set_emissivity(mlx, emissivity) ==
    IF float_ge_0_1(emissivity) /\ emissivity <= FloatOne
    THEN LET ecc0 == float_times_65535_to_uint16(emissivity)
             ecc  == IF ecc0 < 8192 THEN 8192 ELSE ecc0
         IN  {[b_result |-> e.b_result, eeprom_arg |-> <<ecc>>,
               bus |-> e.bus] :
                e \in eeprom_write(mlx, MLX90614_EREG_ECC, U16(ecc))}
    ELSE {[b_result |-> FALSE, eeprom_arg |-> <<>>, bus |-> <<>>]}

\* get_tobj1 storing the value read before it looks at the error flag
get_tobj1_stores_flagged(mlx) ==
    {IF r.b_result
     THEN IF (r.reg_value \div 32768) % 2 # 0
          THEN [b_result |-> FALSE, read_ok |-> r.b_result,
                mlx |-> [mlx EXCEPT !.tobj1 = r.reg_value], bus |-> r.bus]
          ELSE [b_result |-> r.b_result, read_ok |-> r.b_result,
                mlx |-> [mlx EXCEPT !.tobj1 = r.reg_value], bus |-> r.bus]
     ELSE [b_result |-> r.b_result, read_ok |-> r.b_result,
           mlx |-> mlx, bus |-> r.bus] :
        r \in reg_read(mlx, MLX90614_RREG_TOBJ1, 0)}

\* Outcomes of the temperature reads: the result, the descriptor afterwards,
\* the bus trace and (for observation) read_ok, the result of reg_read.
get_tobj1(mlx) ==
    {IF r.b_result
     THEN IF (r.reg_value \div 32768) % 2 # 0
          THEN [b_result |-> FALSE, read_ok |-> r.b_result,
                mlx |-> mlx, bus |-> r.bus]
          ELSE [b_result |-> r.b_result, read_ok |-> r.b_result,
                mlx |-> [mlx EXCEPT !.tobj1 = r.reg_value], bus |-> r.bus]
     ELSE [b_result |-> r.b_result, read_ok |-> r.b_result,
           mlx |-> mlx, bus |-> r.bus] :
        r \in reg_read(mlx, MLX90614_RREG_TOBJ1, 0)}

get_tobj2(mlx) ==
    {IF r.b_result
     THEN IF (r.reg_value \div 32768) % 2 # 0
          THEN [b_result |-> FALSE, read_ok |-> r.b_result,
                mlx |-> mlx, bus |-> r.bus]
          ELSE [b_result |-> r.b_result, read_ok |-> r.b_result,
                mlx |-> [mlx EXCEPT !.tobj2 = r.reg_value], bus |-> r.bus]
     ELSE [b_result |-> r.b_result, read_ok |-> r.b_result,
           mlx |-> mlx, bus |-> r.bus] :
        r \in reg_read(mlx, MLX90614_RREG_TOBJ2, 0)}

get_ta(mlx) ==
    {IF r.b_result
     THEN [b_result |-> r.b_result, read_ok |-> r.b_result,
           mlx |-> [mlx EXCEPT !.tobj2 = r.reg_value], bus |-> r.bus]
     ELSE [b_result |-> r.b_result, read_ok |-> r.b_result,
           mlx |-> mlx, bus |-> r.bus] :
        r \in reg_read(mlx, MLX90614_RREG_TA, 0)}

\* mlx90614_read_temperatures making all three reads whatever the earlier
\* ones returned: get_tobj1(p_mlx) & get_tobj2(p_mlx) & get_ta(p_mlx)
mlx90614_read_temperatures_reads_all(mlx) ==
    UNION {UNION {
        {[b_result |-> t1.b_result /\ t2.b_result /\ ta.b_result,
          mlx |-> ta.mlx,
          steps |-> <<t1.b_result, t2.b_result, ta.b_result>>,
          bus |-> t1.bus \o t2.bus \o ta.bus] :
            ta \in get_ta(t2.mlx)} :
        t2 \in get_tobj2(t1.mlx)} :
        t1 \in get_tobj1(mlx)}

\* get_tobj1(p_mlx) && get_tobj2(p_mlx) && get_ta(p_mlx).  Outcomes: the
\* result, the descriptor afterwards, the bus trace and (for observation)
\* steps, the results of the calls made, in the order they were made.
mlx90614_read_temperatures(mlx) ==
    UNION {
        IF t1.b_result
        THEN UNION {
                IF t2.b_result
                THEN {[b_result |-> ta.b_result, mlx |-> ta.mlx,
                       steps |-> <<t1.b_result, t2.b_result, ta.b_result>>,
                       bus |-> t1.bus \o t2.bus \o ta.bus] :
                        ta \in get_ta(t2.mlx)}
                ELSE {[b_result |-> FALSE, mlx |-> t2.mlx,
                       steps |-> <<t1.b_result, t2.b_result>>,
                       bus |-> t1.bus \o t2.bus]} :
                t2 \in get_tobj2(t1.mlx)}
        ELSE {[b_result |-> FALSE, mlx |-> t1.mlx,
               steps |-> <<t1.b_result>>, bus |-> t1.bus]} :
        t1 \in get_tobj1(mlx)}

\* A float temperature t is represented by the integer t * 10^4.
TempScale == 10000

\* (int16_t)x for a float x within the range of int16_t: the fraction is
\* dropped, towards zero.
float_to_int16(x) ==
    IF x >= 0 THEN x \div TempScale ELSE -((-x) \div TempScale)

\* A multiple of 1/8 of the magnitudes met here is a float.
IsFloat(x) == x % (TempScale \div 8) = 0

\* The floats the value of a float expression may be, as an interval [lo, hi]
\* of representations: the exact value lies in lo..hi, and unless it is one
\* value that is a float, the result is the exact value rounded, with the
\* intermediate precision the build uses, which is off by at most err.
\* err = 1 (10^-4) exceeds half the distance of two floats below 512,
\* err = 10 (10^-3) that of two floats below 32768.
float_result(lo, hi, err) ==
    IF lo = hi /\ IsFloat(lo) THEN [lo |-> lo, hi |-> hi]
    ELSE [lo |-> lo - err, hi |-> hi + err]

\* convert_temp_linear_to_unit taking 273.0 for the offset of the Celsius
\* scale
convert_temp_linear_to_unit_offset_273(mlx, linear_temp) ==
    IF mlx.temperature_unit = MLX_TEMP_LINEARIZED
    THEN {linear_temp * TempScale}
    ELSE LET scaled == float_result(linear_temp * 200, linear_temp * 200, 1)
         IN  IF mlx.temperature_unit # MLX_TEMP_KELVIN
             THEN LET united == float_result(scaled.lo - 2730000,
                                             scaled.hi - 2730000, 1)
                  IN  IF mlx.temperature_unit = MLX_TEMP_FAHRENHEIT
                      THEN LET f == float_result(
                                      ((united.lo * 9) \div 5) + 320000,
                                      ((united.hi * 9 + 4) \div 5) + 320000,
                                      1)
                           IN  f.lo .. f.hi
                      ELSE united.lo .. united.hi
             ELSE scaled.lo .. scaled.hi

\* The set of the values the function may return for the float united_temp,
\* which is such that the results stay within the range of int16_t.
convert_temp_unit_to_linear(mlx, united_temp) ==
    IF mlx.temperature_unit = MLX_TEMP_LINEARIZED
    THEN {float_to_int16(united_temp)}
    ELSE LET kelvin_temp ==
                IF mlx.temperature_unit = MLX_TEMP_FAHRENHEIT
                THEN LET n == (united_temp - 320000) * 5
                     IN  float_result((n \div 9) + 2731500,
                                      ((n + 8) \div 9) + 2731500, 1)
                ELSE IF mlx.temperature_unit = MLX_TEMP_CELSIUS
                THEN float_result(united_temp + 2731500,
                                  united_temp + 2731500, 1)
                ELSE [lo |-> united_temp, hi |-> united_temp]
             product == float_result(kelvin_temp.lo * 50,
                                     kelvin_temp.hi * 50, 10)
         IN  {float_to_int16(x) : x \in product.lo .. product.hi}

\* The set of the floats the function may return.
convert_temp_linear_to_unit(mlx, linear_temp) ==
    IF mlx.temperature_unit = MLX_TEMP_LINEARIZED
    THEN {linear_temp * TempScale}
    ELSE LET scaled == float_result(linear_temp * 200, linear_temp * 200, 1)
         IN  IF mlx.temperature_unit # MLX_TEMP_KELVIN
             THEN LET united == float_result(scaled.lo - 2731500,
                                             scaled.hi - 2731500, 1)
                  IN  IF mlx.temperature_unit = MLX_TEMP_FAHRENHEIT
                      THEN LET f == float_result(
                                      ((united.lo * 9) \div 5) + 320000,
                                      ((united.hi * 9 + 4) \div 5) + 320000,
                                      1)
                           IN  f.lo .. f.hi
                      ELSE united.lo .. united.hi
             ELSE scaled.lo .. scaled.hi

(***************************************************************************)
(* The driver in use: one caller, one descriptor, one call at a time.      *)
(***************************************************************************)
Idle == [fn |-> "none"]

\* Arguments the caller passes to mlx90614_set_address (uint8_t).
AddressArgs == {0, 1, 65, 127, 128, 255}

\* Values the caller passes to reg_write and eeprom_write.
WriteArgs == SensorWords \cup {0}

\* Floats the caller passes to mlx90614_set_emissivity, times 2^28: 0.0,
\* 0.05f, the float next below 0.1f, 0.1f, 0.125, 0.2f, 0.5, 0.75, 0.95f, 1.0,
\* the float next above 1.0, and 2.0.
EmissivityArgs ==
    {0, 13421773, 26843544, 26843546, 33554432, 53687092, 134217728,
     201326592, 255013680, 268435456, 268435488, 536870912}

Init ==
    /\ p_mlx = NULL
    /\ allocated = FALSE
    /\ call = Idle
    /\ bus = <<>>

Open ==
    /\ call = Idle
    /\ p_mlx = NULL
    /\ \E i2c_addr \in I2cAddrs :
         \E o \in mlx90614_open(3, i2c_addr) :
            /\ p_mlx' = o.p_mlx
            /\ allocated' = o.allocated
            /\ call' = [fn |-> "mlx90614_open", i2c_addr |-> i2c_addr,
                        malloc_ok |-> o.malloc_ok, id_ok |-> o.id_ok]
            /\ bus' = o.bus

Close ==
    /\ call = Idle
    /\ p_mlx' = NULL
    /\ allocated' = FALSE
    /\ call' = [fn |-> "mlx90614_close"]
    /\ bus' = <<>>

GetId ==
    /\ call = Idle
    /\ p_mlx # NULL
    /\ \E o \in mlx90614_get_id(p_mlx) :
         /\ p_mlx' = o.mlx
         /\ call' = [fn |-> "mlx90614_get_id", b_result |-> o.b_result,
                     before |-> p_mlx]
         /\ bus' = o.bus
    /\ UNCHANGED allocated

SetAddress ==
    /\ call = Idle
    /\ p_mlx # NULL
    /\ \E address \in AddressArgs :
         \E o \in mlx90614_set_address(p_mlx, address) :
            /\ call' = [fn |-> "mlx90614_set_address", address |-> address,
                        b_result |-> o.b_result, eeprom_arg |-> o.eeprom_arg]
            /\ bus' = o.bus
    /\ UNCHANGED <<p_mlx, allocated>>

\* The caller's variable holds the error sentinel before the call.
GetEmissivity ==
    /\ call = Idle
    /\ p_mlx # NULL
    /\ \E o \in mlx90614_get_emissivity(p_mlx,
                                        MLX90614_EMISSIVITY_ERROR * 65535) :
         /\ call' = [fn |-> "mlx90614_get_emissivity",
                     b_result |-> o.b_result, emissivity |-> o.emissivity]
         /\ bus' = o.bus
    /\ UNCHANGED <<p_mlx, allocated>>

SetEmissivity ==
    /\ call = Idle
    /\ p_mlx # NULL
    /\ \E emissivity \in EmissivityArgs :
         \E o \in mlx90614_set_emissivity(p_mlx, emissivity) :
            /\ call' = [fn |-> "mlx90614_set_emissivity",
                        emissivity |-> emissivity,
                        b_result |-> o.b_result, eeprom_arg |-> o.eeprom_arg]
            /\ bus' = o.bus
    /\ UNCHANGED <<p_mlx, allocated>>

ReadTemperatures ==
    /\ call = Idle
    /\ p_mlx # NULL
    /\ \E o \in mlx90614_read_temperatures(p_mlx) :
         /\ p_mlx' = o.mlx
         /\ call' = [fn |-> "mlx90614_read_temperatures",
                     b_result |-> o.b_result, steps |-> o.steps,
                     before |-> p_mlx]
         /\ bus' = o.bus
    /\ UNCHANGED allocated

\* The caller has looked at the result and goes on to its next call.
Return ==
    /\ call # Idle
    /\ call' = Idle
    /\ bus' = <<>>
    /\ UNCHANGED <<p_mlx, allocated>>

Next ==
    \/ Open
    \/ Close
    \/ GetId
    \/ SetAddress
    \/ GetEmissivity
    \/ SetEmissivity
    \/ ReadTemperatures
    \/ Return

Spec == Init /\ [][Next]_vars

(***************************************************************************)
(* The register transport and the EEPROM writer called on their own, on a  *)
(* descriptor that is open on one of the bus addresses.                    *)
(***************************************************************************)
Descriptor(i2c_addr) ==
    [i2c_fd |-> 3, i2c_addr |-> i2c_addr,
     temperature_unit |-> MLX_TEMP_CELSIUS,
     device_id |-> <<WordList[1], WordList[1], WordList[1], WordList[1]>>,
     tobj1 |-> WordList[1], tobj2 |-> WordList[1]]

InitSupport ==
    /\ p_mlx \in {Descriptor(a) : a \in I2cAddrs}
    /\ allocated = TRUE
    /\ call = Idle
    /\ bus = <<>>

RegRead ==
    /\ call = Idle
    /\ p_mlx # NULL
    /\ \E reg_addr \in Regs, before \in SensorWords :
         \E o \in reg_read(p_mlx, reg_addr, before) :
            /\ call' = [fn |-> "reg_read", reg_addr |-> reg_addr,
                        before |-> before, reg_value |-> o.reg_value,
                        b_result |-> o.b_result]
            /\ bus' = o.bus
    /\ UNCHANGED <<p_mlx, allocated>>

RegWrite ==
    /\ call = Idle
    /\ p_mlx # NULL
    /\ \E reg_addr \in Regs, reg_value \in WriteArgs :
         \E o \in reg_write(p_mlx, reg_addr, reg_value) :
            /\ call' = [fn |-> "reg_write", reg_addr |-> reg_addr,
                        reg_value |-> reg_value, b_result |-> o.b_result]
            /\ bus' = o.bus
    /\ UNCHANGED <<p_mlx, allocated>>

EepromWrite ==
    /\ call = Idle
    /\ p_mlx # NULL
    /\ \E reg_addr \in Regs, reg_value \in WriteArgs :
         \E o \in eeprom_write(p_mlx, reg_addr, reg_value) :
            /\ call' = [fn |-> "eeprom_write", reg_addr |-> reg_addr,
                        reg_value |-> reg_value, b_result |-> o.b_result]
            /\ bus' = o.bus
    /\ UNCHANGED <<p_mlx, allocated>>

NextSupport ==
    \/ RegRead
    \/ RegWrite
    \/ EepromWrite
    \/ Return

SpecSupport == InitSupport /\ [][NextSupport]_vars

(***************************************************************************)
(* The temperature reads called on their own, on a descriptor that is open *)
(* and holds earlier readings.                                             *)
(***************************************************************************)
InitTemp ==
    /\ p_mlx \in {[Descriptor(a) EXCEPT !.tobj1 = t1, !.tobj2 = t2] :
                    a \in I2cAddrs, t1 \in SensorWords, t2 \in SensorWords}
    /\ allocated = TRUE
    /\ call = Idle
    /\ bus = <<>>

GetTobj1 ==
    /\ call = Idle
    /\ p_mlx # NULL
    /\ \E o \in get_tobj1(p_mlx) :
         /\ p_mlx' = o.mlx
         /\ call' = [fn |-> "get_tobj1", b_result |-> o.b_result,
                     read_ok |-> o.read_ok, before |-> p_mlx]
         /\ bus' = o.bus
    /\ UNCHANGED allocated

GetTobj2 ==
    /\ call = Idle
    /\ p_mlx # NULL
    /\ \E o \in get_tobj2(p_mlx) :
         /\ p_mlx' = o.mlx
         /\ call' = [fn |-> "get_tobj2", b_result |-> o.b_result,
                     read_ok |-> o.read_ok, before |-> p_mlx]
         /\ bus' = o.bus
    /\ UNCHANGED allocated

GetTa ==
    /\ call = Idle
    /\ p_mlx # NULL
    /\ \E o \in get_ta(p_mlx) :
         /\ p_mlx' = o.mlx
         /\ call' = [fn |-> "get_ta", b_result |-> o.b_result,
                     read_ok |-> o.read_ok, before |-> p_mlx]
         /\ bus' = o.bus
    /\ UNCHANGED allocated

NextTemp ==
    \/ GetTobj1
    \/ GetTobj2
    \/ GetTa
    \/ ReadTemperatures
    \/ Return

SpecTemp == InitTemp /\ [][NextTemp]_vars

(***************************************************************************)
(* The temperature conversions: a value in the selected unit is converted  *)
(* to the linearized representation, and that one back.                    *)
(***************************************************************************)
GridBelowZero == 50
GridAboveZero == 150

\* The floats -GridBelowZero, ..., GridAboveZero in steps of 0.5.
TempGrid ==
    {k * (TempScale \div 2) : k \in (-2 * GridBelowZero) .. (2 * GridAboveZero)}

TemperatureUnits ==
    {MLX_TEMP_LINEARIZED, MLX_TEMP_KELVIN, MLX_TEMP_CELSIUS,
     MLX_TEMP_FAHRENHEIT}

InitConv ==
    /\ p_mlx = Descriptor(MLX90614_I2C_ADDRESS)
    /\ allocated = TRUE
    /\ call = Idle
    /\ bus = <<>>

SetTemperatureUnit ==
    /\ call = Idle
    /\ p_mlx # NULL
    /\ \E unit \in TemperatureUnits :
         /\ p_mlx' = [p_mlx EXCEPT !.temperature_unit = unit]
         /\ call' = [fn |-> "mlx90614_set_temperature_unit", unit |-> unit]
    /\ UNCHANGED <<allocated, bus>>

ConvertToLinear ==
    /\ call = Idle
    /\ p_mlx # NULL
    /\ \E united_temp \in TempGrid :
         \E linear_temp \in convert_temp_unit_to_linear(p_mlx, united_temp) :
            call' = [fn |-> "convert_temp_unit_to_linear",
                     united_temp |-> united_temp,
                     linear_temp |-> linear_temp]
    /\ UNCHANGED <<p_mlx, allocated, bus>>

\* The caller converts the linearized value it has just got back.
ConvertToUnit ==
    /\ call.fn = "convert_temp_unit_to_linear"
    /\ \E united_temp \in
            convert_temp_linear_to_unit(p_mlx, call.linear_temp) :
         call' = [fn |-> "convert_temp_linear_to_unit",
                  original |-> call.united_temp,
                  linear_temp |-> call.linear_temp,
                  united_temp |-> united_temp]
    /\ UNCHANGED <<p_mlx, allocated, bus>>

NextConv ==
    \/ SetTemperatureUnit
    \/ ConvertToLinear
    \/ ConvertToUnit
    \/ Return

SpecConv == InitConv /\ [][NextConv]_vars

(***************************************************************************)
(* Specification of the pure function crc8 over its whole 8-bit domain     *)
(***************************************************************************)
InitCrc ==
    /\ p_mlx = NULL
    /\ allocated = FALSE
    /\ bus = <<>>
    /\ call \in {[fn |-> "crc8_args", prev_crc |-> a, data |-> b] :
                    a \in Byte, b \in Byte}

Crc8Call ==
    /\ call.fn = "crc8_args"
    /\ call' = [fn |-> "crc8", prev_crc |-> call.prev_crc, data |-> call.data,
                result |-> crc8(call.prev_crc, call.data)]
    /\ UNCHANGED <<p_mlx, allocated, bus>>

NextCrc == Crc8Call

SpecCrc == InitCrc /\ [][NextCrc]_vars

(***************************************************************************)
(* Observations on the bus trace of the call that has just returned        *)
(***************************************************************************)
IsWrite(e) == e.op = "I2CMaster_Write"
IsRead(e)  == e.op = "I2CMaster_WriteThenRead"
IsSleep(e) == e.op = "nanosleep"

BusWrites == SelectSeq(bus, IsWrite)
BusReads  == SelectSeq(bus, IsRead)
BusSleeps == SelectSeq(bus, IsSleep)

\* the 16-bit word in the frame of a read transaction
ReadWord(e) == e.data[2] * 256 + e.data[1]

\* the register and the 16-bit value a write transaction carries
WriteReg(e)   == e.data[1]
WriteValue(e) == e.data[3] * 256 + e.data[2]

\* CRC8, seed 0, folded over a sequence of bytes
RECURSIVE Crc8Fold(_, _)
Crc8Fold(crc, bytes) ==
    IF bytes = <<>> THEN crc
    ELSE Crc8Fold(crc8(crc, Head(bytes)), Tail(bytes))

\* the packet error code of a read: over {address<<1, register,
\* address<<1|1, low byte, high byte}
ReadPec(i2c_addr, reg_addr, lo, hi) ==
    Crc8Fold(0, <<U8(i2c_addr * 2), reg_addr, U8(i2c_addr * 2) + 1, lo, hi>>)

\* the packet error code of a write: over {address<<1, register, low, high}
WritePec(i2c_addr, reg_addr, lo, hi) ==
    Crc8Fold(0, <<U8(i2c_addr * 2), reg_addr, lo, hi>>)

(***************************************************************************)
(* Claims                                                                  *)
(***************************************************************************)
\* C1: reg_read returns not-ok whenever the underlying write-then-read bus
\* transaction reports an error (the transport returns -1), for every
\* register and whatever the receive buffer holds.
C1_ReadFailsOnTransportError ==
    (call.fn = "reg_read" /\ bus[1].ret = -1) => ~call.b_result

\* C2: mlx90614_open returns NULL and releases the allocation whenever one
\* of the four device-ID register reads fails; a handle is returned only if
\* all four reads succeeded.
C2_OpenFailsOnIdReadFailure ==
    (call.fn = "mlx90614_open" /\ ~call.id_ok) =>
        (p_mlx = NULL /\ ~allocated)

\* C3 (as stated): every eeprom_write issues exactly two register writes to
\* the target cell, 0x0000 first and the requested value second, also when
\* the erase write's transport call fails.
C3_AlwaysTwoWrites ==
    call.fn = "eeprom_write" =>
        /\ Len(BusWrites) = 2
        /\ WriteReg(BusWrites[1]) = call.reg_addr
        /\ WriteValue(BusWrites[1]) = 0
        /\ WriteReg(BusWrites[2]) = call.reg_addr
        /\ WriteValue(BusWrites[2]) = call.reg_value

\* C3 (amended): every eeprom_write first issues the erase write, 0x0000 to
\* the target cell; if that write's transport call succeeds it issues exactly
\* one more register write, after it, carrying the requested value to the
\* same cell; if it fails no value write is issued.  No read is issued.
C3_EraseThenValueIfErased ==
    call.fn = "eeprom_write" =>
        /\ Len(BusReads) = 0
        /\ Len(BusWrites) >= 1
        /\ bus[1] = BusWrites[1]
        /\ WriteReg(BusWrites[1]) = call.reg_addr
        /\ WriteValue(BusWrites[1]) = 0
        /\ IF BusWrites[1].ret # -1
           THEN /\ Len(BusWrites) = 2
                /\ WriteReg(BusWrites[2]) = call.reg_addr
                /\ WriteValue(BusWrites[2]) = call.reg_value
           ELSE Len(BusWrites) = 1

\* an eeprom_write of a non-zero value whose erase write succeeded: two
\* writes, zero then the value
C3_Witness ==
    /\ call.fn = "eeprom_write"
    /\ call.reg_value = 10157
    /\ Len(BusWrites) = 2
    /\ BusWrites[1].ret # -1
    /\ WriteValue(BusWrites[1]) = 0
    /\ WriteValue(BusWrites[2]) = 10157

\* C4: eeprom_write returns false whenever the transport call of its erase
\* write (the write of 0x0000) fails.
C4_EraseFailureReported ==
    (call.fn = "eeprom_write" /\ BusWrites[1].ret = -1) => ~call.b_result

\* an eeprom_write whose erase write failed on the transport
C4_Witness ==
    /\ call.fn = "eeprom_write"
    /\ WriteValue(BusWrites[1]) = 0
    /\ BusWrites[1].ret = -1
    /\ ~call.b_result

\* C5 (as stated): on every path through eeprom_write neither settle delay
\* is skipped: the erase delay follows the erase write before any further
\* transaction, and the write delay happens before the return, also when the
\* erase write failed.
C5_BothDelaysAlways ==
    call.fn = "eeprom_write" =>
        /\ Len(BusSleeps) = 2
        /\ bus[2] = Sleep(MLX90614_T_ERASE_MS)
        /\ bus[Len(bus)] = Sleep(MLX90614_T_WRITE_MS)

\* C5 (amended): in eeprom_write the erase settle delay always follows the
\* erase write, before any further bus transaction, also when the erase
\* write failed; the write settle delay follows the value write, before the
\* return, whenever the value write is issued (that is, when the erase write
\* succeeded); after a failed erase write there is no second delay.
C5_DelayAfterEveryWrite ==
    call.fn = "eeprom_write" =>
        /\ Len(bus) >= 2
        /\ IsWrite(bus[1])
        /\ bus[2] = Sleep(MLX90614_T_ERASE_MS)
        /\ IF bus[1].ret # -1
           THEN /\ Len(bus) = 4
                /\ IsWrite(bus[3])
                /\ bus[4] = Sleep(MLX90614_T_WRITE_MS)
           ELSE Len(bus) = 2

\* an eeprom_write whose erase write failed: the erase delay is still taken
C5_Witness ==
    /\ call.fn = "eeprom_write"
    /\ bus[1].ret = -1
    /\ bus[2] = Sleep(MLX90614_T_ERASE_MS)
    /\ Len(bus) = 2

\* C6: a reg_read whose received third byte differs from the PEC computed
\* over {address<<1, register, address<<1|1, low byte, high byte} returns
\* not-ok and leaves the caller's output value as it was before the call.
C6_PecMismatchRejected ==
    (/\ call.fn = "reg_read"
     /\ bus[1].data[3] # ReadPec(p_mlx.i2c_addr, call.reg_addr,
                                 bus[1].data[1], bus[1].data[2]))
    => (~call.b_result /\ call.reg_value = call.before)

\* a completed read of a word, with a corrupted PEC, into a variable holding
\* another word
C6_Witness ==
    /\ call.fn = "reg_read"
    /\ bus[1].ret = 4
    /\ bus[1].data[1] = 173 /\ bus[1].data[2] = 39
    /\ bus[1].data[3] # ReadPec(p_mlx.i2c_addr, call.reg_addr, 173, 39)
    /\ call.before = 32769
    /\ call.reg_value = 32769
    /\ ~call.b_result

\* C7: when the transport succeeds and the third received byte equals the
\* CRC8 (seed 0) folded over {address<<1, register, address<<1|1, low byte,
\* high byte}, reg_read returns ok with value = high byte * 256 + low byte.
C7_GoodFrameAccepted ==
    (/\ call.fn = "reg_read"
     /\ bus[1].ret # -1
     /\ bus[1].data[3] = ReadPec(p_mlx.i2c_addr, call.reg_addr,
                                 bus[1].data[1], bus[1].data[2]))
    => (/\ call.b_result
        /\ call.reg_value = bus[1].data[2] * 256 + bus[1].data[1])

\* the bytes [0xAD, 0x27] with their PEC, read from TOBJ1 at 0x5A, give
\* 0x27AD = 10157
C7_Witness ==
    /\ call.fn = "reg_read"
    /\ p_mlx.i2c_addr = MLX90614_I2C_ADDRESS
    /\ call.reg_addr = MLX90614_RREG_TOBJ1
    /\ bus[1].ret = 4
    /\ bus[1].data = <<173, 39, ReadPec(90, 7, 173, 39)>>
    /\ call.before # 10157
    /\ call.b_result
    /\ call.reg_value = 10157

\* C8: reg_write issues a single bus write whose payload is exactly
\* [register, low byte, high byte, PEC], PEC being the CRC8 (seed 0) folded
\* over {address<<1, register, low byte, high byte}, and it returns false
\* exactly when that bus write reports failure.
C8_WriteFraming ==
    call.fn = "reg_write" =>
        /\ Len(bus) = 1
        /\ IsWrite(bus[1])
        /\ bus[1].addr = p_mlx.i2c_addr
        /\ bus[1].data =
              <<call.reg_addr, call.reg_value % 256, call.reg_value \div 256,
                WritePec(p_mlx.i2c_addr, call.reg_addr,
                         call.reg_value % 256, call.reg_value \div 256)>>
        /\ (~call.b_result <=> bus[1].ret = -1)

\* a reg_write of 0x27AD whose bus write failed
C8_Witness ==
    /\ call.fn = "reg_write"
    /\ call.reg_value = 10157
    /\ bus[1].data[2] = 173 /\ bus[1].data[3] = 39
    /\ bus[1].ret = -1
    /\ ~call.b_result

\* C9: for every pair of 8-bit inputs crc8 returns the reference bit-serial
\* CRC-8 (polynomial 0x07, MSB first, no reflection, no final XOR) of the
\* pair, and the result is an 8-bit value.
C9_Crc8MatchesReference ==
    call.fn = "crc8" =>
        /\ call.result = RefCrc8(call.prev_crc, call.data)
        /\ call.result \in Byte

\* crc8 applied with a non-zero previous value, crc8(0xFF, 0x01), gives the
\* reference's non-zero remainder
C9_Witness ==
    /\ call.fn = "crc8"
    /\ call.prev_crc = 255
    /\ call.data = 1
    /\ call.result = RefCrc8(255, 1)
    /\ call.result # 0

\* C10: mlx90614_set_address called with an address outside the open
\* interval (0x00, 0x80), in particular 0x00 and 0x80, returns false and
\* performs no bus transaction at all.
C10_BadAddressRejected ==
    (/\ call.fn = "mlx90614_set_address"
     /\ ~(call.address > 0 /\ call.address < 128))
    => (~call.b_result /\ bus = <<>>)

\* mlx90614_set_address(0x80) has returned false without touching the bus
C10_Witness ==
    /\ call.fn = "mlx90614_set_address"
    /\ call.address = 128
    /\ ~call.b_result
    /\ bus = <<>>

\* C11: for every valid address a (0x01..0x7F) and every content c the
\* preliminary read of the SMBus-address cell delivered, the value
\* mlx90614_set_address hands to eeprom_write is (c AND 0xFF00) OR a: the
\* high byte of c with a as the low byte.  It is the value of the second
\* register write whenever that write is made.
C11_HighBytePreserved ==
    (/\ call.fn = "mlx90614_set_address"
     /\ call.eeprom_arg # <<>>)
    => /\ call.address \in 1..127
       /\ Len(bus) >= 1
       /\ IsRead(bus[1])
       /\ bus[1].reg = MLX90614_EREG_SMBUS_ADDR
       /\ call.eeprom_arg =
            <<(ReadWord(bus[1]) \div 256) * 256 + call.address>>
       /\ Len(BusWrites) = 2 =>
            WriteValue(BusWrites[2]) = call.eeprom_arg[1]

\* mlx90614_set_address(0x41) on a cell that read 0x8001 has handed 0x8041
\* to eeprom_write, and the value write carried it
C11_Witness ==
    /\ call.fn = "mlx90614_set_address"
    /\ call.address = 65
    /\ Len(bus) >= 1
    /\ IsRead(bus[1])
    /\ ReadWord(bus[1]) = 32769
    /\ call.eeprom_arg = <<32833>>
    /\ Len(BusWrites) = 2
    /\ WriteValue(BusWrites[2]) = 32833

\* C12: mlx90614_set_emissivity called with a value below 0.1 or above 1.0
\* returns false and performs no bus transaction.
C12_OutOfRangeRejected ==
    (/\ call.fn = "mlx90614_set_emissivity"
     /\ \/ call.emissivity <= (FloatOne - 1) \div 10
        \/ call.emissivity > FloatOne)
    => (~call.b_result /\ bus = <<>>)

\* mlx90614_set_emissivity with the float next below 0.1f has returned false
\* without touching the bus
C12_Witness ==
    /\ call.fn = "mlx90614_set_emissivity"
    /\ call.emissivity = 26843544
    /\ ~call.b_result
    /\ bus = <<>>

\* The least float representation e with e / 2^28 * 65535 >= h / 2, that is
\* the ceiling of h * 2^27 / 65535 = 2048 h + 2048 h / 65535.
LeastWithProduct(h) == 2048 * h + ((2048 * h + 65534) \div 65535)

\* k is e * 65535 rounded to the nearest integer (half away from zero), for
\* the float e / 2^28: k - 1/2 <= e * 65535 < k + 1/2
IsRounded(k, e) ==
    LeastWithProduct(2 * k - 1) <= e /\ e < LeastWithProduct(2 * k + 1)

\* C13: for every accepted emissivity e the value written to the
\* ECC cell is max(0x2000, round(e * 65535)), within 0x2000..0xFFFF, and
\* 0xFFFF for e = 1.0.
C13_EncodedIsRounded ==
    (/\ call.fn = "mlx90614_set_emissivity"
     /\ call.eeprom_arg # <<>>)
    => LET ecc == call.eeprom_arg[1]
       IN  /\ ecc \in 8192..65535
           /\ IF ecc > 8192 THEN IsRounded(ecc, call.emissivity)
              ELSE call.emissivity < LeastWithProduct(2 * 8192 + 1)
           /\ call.emissivity = FloatOne => ecc = 65535

\* C14: whatever 16-bit content c the read of the ECC cell delivered, a
\* successful mlx90614_get_emissivity yields c / 65535 with c taken as
\* unsigned: a value in [0, 1], 1.0 for c = 0xFFFF, and never a negative value
\* such as the sentinel MLX90614_EMISSIVITY_ERROR.
C14_EmissivityIsUnsignedFraction ==
    (/\ call.fn = "mlx90614_get_emissivity"
     /\ call.b_result)
    => /\ Len(bus) = 1
       /\ IsRead(bus[1])
       /\ call.emissivity = ReadWord(bus[1])
       /\ call.emissivity >= 0
       /\ call.emissivity <= 65535
       /\ ReadWord(bus[1]) = 65535 => call.emissivity = 65535
       /\ call.emissivity # MLX90614_EMISSIVITY_ERROR * 65535

\* the frame of a read transaction carries the PEC of its two data bytes
FrameGood(e) == e.data[3] = ReadPec(e.addr, e.reg, e.data[1], e.data[2])

\* C15: a read of TOBJ1 or TOBJ2 (get_tobj1, get_tobj2) fails if its
\* register read fails or if bit 15 of the value read is set, and in both
\* cases the stored object temperature is what it was; it succeeds, and
\* stores the value read, exactly when the register read succeeded with
\* bit 15 clear.  The other object temperature is not touched.
C15_ObjectReadFlagged ==
    call.fn \in {"get_tobj1", "get_tobj2"} =>
        /\ Len(bus) = 1
        /\ IsRead(bus[1])
        /\ LET first  == call.fn = "get_tobj1"
               word   == ReadWord(bus[1])
               flag   == word >= 32768
               stored == IF first THEN p_mlx.tobj1 ELSE p_mlx.tobj2
               old    == IF first THEN call.before.tobj1
                         ELSE call.before.tobj2
           IN  /\ bus[1].reg = IF first THEN MLX90614_RREG_TOBJ1
                               ELSE MLX90614_RREG_TOBJ2
               /\ bus[1].ret # -1 => (call.read_ok <=> FrameGood(bus[1]))
               /\ (~call.read_ok \/ flag) => (~call.b_result /\ stored = old)
               /\ (call.read_ok /\ ~flag) => (call.b_result /\ stored = word)
               /\ first => p_mlx.tobj2 = call.before.tobj2
               /\ ~first => p_mlx.tobj1 = call.before.tobj1

\* get_tobj1 has read 0x8001 with a good PEC: it has failed and the stored
\* object temperature is still the earlier 0x27AD
C15_Witness ==
    /\ call.fn = "get_tobj1"
    /\ call.read_ok
    /\ Len(bus) = 1
    /\ ReadWord(bus[1]) = 32769
    /\ ~call.b_result
    /\ call.before.tobj1 = 10157
    /\ p_mlx.tobj1 = 10157

\* C16: a successful ambient read (get_ta) leaves the stored object-2
\* temperature as it was, and after a successful mlx90614_read_temperatures
\* the stored object-2 temperature is the value read from TOBJ2, the second
\* of its three reads.
C16_AmbientLeavesObject2 ==
    /\ (call.fn = "get_ta" /\ call.b_result) =>
            p_mlx.tobj2 = call.before.tobj2
    /\ (call.fn = "mlx90614_read_temperatures" /\ call.b_result) =>
            /\ Len(bus) = 3
            /\ bus[2].reg = MLX90614_RREG_TOBJ2
            /\ p_mlx.tobj2 = ReadWord(bus[2])

\* C17: from the step after mlx90614_open returned the handle until the
\* handle is closed, no step of any public operation changes one of the four
\* device-ID words the handle holds; a later mlx90614_get_id, whether its
\* reads fail part-way or deliver other data, leaves them as they were.
C17_DeviceIdImmutable ==
    [][(p_mlx # NULL /\ p_mlx' # NULL) =>
            p_mlx'.device_id = p_mlx.device_id]_vars

\* C18: a single reg_read or reg_write call issues exactly one bus
\* transaction, whether the transaction succeeds or fails, and returns false
\* when the transaction failed.
C18_OneTransactionFailureFalse ==
    call.fn \in {"reg_read", "reg_write"} =>
        /\ Len(bus) = 1
        /\ IF call.fn = "reg_read" THEN IsRead(bus[1]) ELSE IsWrite(bus[1])
        /\ bus[1].ret = -1 => ~call.b_result

\* C20: if the preliminary read of the SMBus-address cell made by
\* mlx90614_set_address fails, by a transport error or by a PEC mismatch,
\* the call returns false and issues no register write.
C20_FailedReadNoWrite ==
    (/\ call.fn = "mlx90614_set_address"
     /\ Len(bus) >= 1
     /\ IsRead(bus[1])
     /\ (bus[1].ret = -1 \/ ~FrameGood(bus[1])))
    => (~call.b_result /\ BusWrites = <<>>)

\* C19: with the unit set to Celsius, for every value v of -50, -49.5, ...,
\* 150 the result of convert_temp_linear_to_unit applied to the result of
\* convert_temp_unit_to_linear(v) is within 0.02 of v.
C19_CelsiusRoundTrip ==
    (/\ call.fn = "convert_temp_linear_to_unit"
     /\ p_mlx.temperature_unit = MLX_TEMP_CELSIUS)
    => /\ call.united_temp - call.original <= 2 * (TempScale \div 100)
       /\ call.original - call.united_temp <= 2 * (TempScale \div 100)

\* 150.0 degrees Celsius has been converted to 21157 and back to 149.99
C19_Witness ==
    /\ call.fn = "convert_temp_linear_to_unit"
    /\ p_mlx.temperature_unit = MLX_TEMP_CELSIUS
    /\ call.original = 150 * TempScale
    /\ call.linear_temp = 21157
    /\ call.united_temp = 150 * TempScale - TempScale \div 100

\* C21: eeprom_write returns true exactly when it made both register writes
\* and the transport reported an error for neither; when the erase write
\* succeeded on the transport, the result is that of the value write.
C21_ResultIsBothWrites ==
    call.fn = "eeprom_write" =>
        /\ Len(BusWrites) >= 1
        /\ call.b_result <=>
                /\ Len(BusWrites) = 2
                /\ BusWrites[1].ret # -1
                /\ BusWrites[2].ret # -1
        /\ BusWrites[1].ret # -1 =>
                /\ Len(BusWrites) = 2
                /\ call.b_result <=> (BusWrites[2].ret # -1)

\* eeprom_write whose erase write went through and whose value write met a
\* transport error has returned false
C21_Witness ==
    /\ call.fn = "eeprom_write"
    /\ Len(BusWrites) = 2
    /\ BusWrites[1].ret # -1
    /\ BusWrites[2].ret = -1
    /\ ~call.b_result

\* the registers mlx90614_read_temperatures reads, in the order of the claim
TemperatureRegs ==
    <<MLX90614_RREG_TOBJ1, MLX90614_RREG_TOBJ2, MLX90614_RREG_TA>>

\* C22: the bus transactions of mlx90614_read_temperatures are reads of
\* TOBJ1, TOBJ2 and TA in that order, one for each of the reads it made; a
\* read is made only if every read before it succeeded, so that no
\* transaction follows the first failing read, and the call returns true
\* exactly when all three reads were made and succeeded.  A read succeeds
\* when its call (get_tobj1, get_tobj2, get_ta) returns true: after a
\* transaction without transport error, when the frame has a good PEC and,
\* for the object temperatures, bit 15 clear.
C22_ReadsInOrderUntilFailure ==
    call.fn = "mlx90614_read_temperatures" =>
        LET n == Len(bus)
        IN  /\ n \in 1..3
            /\ Len(call.steps) = n
            /\ \A i \in 1..n :
                 /\ IsRead(bus[i])
                 /\ bus[i].reg = TemperatureRegs[i]
                 /\ i < n => call.steps[i]
                 /\ bus[i].ret # -1 =>
                      (call.steps[i] <=>
                         /\ FrameGood(bus[i])
                         /\ i < 3 => ReadWord(bus[i]) < 32768)
            /\ n < 3 => ~call.steps[n]
            /\ call.b_result <=> (n = 3 /\ \A i \in 1..3 : call.steps[i])

\* mlx90614_read_temperatures has read TOBJ1 with success and TOBJ2 with a
\* PEC mismatch: it has returned false without a transaction for TA
C22_Witness ==
    /\ call.fn = "mlx90614_read_temperatures"
    /\ Len(bus) = 2
    /\ bus[1].reg = MLX90614_RREG_TOBJ1
    /\ bus[2].reg = MLX90614_RREG_TOBJ2
    /\ bus[2].ret # -1
    /\ ~FrameGood(bus[2])
    /\ call.steps = <<TRUE, FALSE>>
    /\ ~call.b_result

\* C23: the bus transactions of mlx90614_get_id are reads of ID1 (0x3C),
\* ID2, ... in ascending order; every read before the last one succeeded, so
\* that no read follows the first failing one; the call returns true only
\* after four reads, the last of which succeeded too; and when it fails at
\* index k (its read k + 1 is the last), the handle's ID words 0..k-1 hold
\* the values just read and the words k..3 are what they were.  A read
\* succeeds when reg_read returns true: after a transaction without
\* transport error, when the frame has a good PEC.
C23_IdReadInOrderUntilFailure ==
    call.fn = "mlx90614_get_id" =>
        LET n  == Len(bus)
            ok == IF call.b_result THEN n ELSE n - 1
        IN  /\ n \in 1..4
            /\ call.b_result => n = 4
            /\ \A i \in 1..n :
                 /\ IsRead(bus[i])
                 /\ bus[i].reg = MLX90614_EREG_ID1 + i - 1
                 /\ bus[i].ret # -1 => (FrameGood(bus[i]) <=> i <= ok)
            /\ \A i \in 1..4 :
                 p_mlx.device_id[i] = IF i <= ok THEN ReadWord(bus[i])
                                      ELSE call.before.device_id[i]

\* mlx90614_get_id has failed at index 2: two words hold the 0x8001 just
\* read, the other two are the 0x27AD they were, and ID4 has not been read
C23_Witness ==
    /\ call.fn = "mlx90614_get_id"
    /\ ~call.b_result
    /\ Len(bus) = 3
    /\ bus[3].reg = MLX90614_EREG_ID1 + 2
    /\ call.before.device_id = <<10157, 10157, 10157, 10157>>
    /\ p_mlx.device_id = <<32769, 32769, 10157, 10157>>
=============================================================================
